---------------------------- MODULE Spec2Model ----------------------------
(***************************************************************************)
(* Model of scripts_compchem:                                              *)
(*   - gaussian_class.py : class GaussianOut, the queries on a Gaussian    *)
(*     output file (a log);                                                *)
(*   - optimize_accounts.py : the script that submits one test job per     *)
(*     account, compares their priorities and cleans up.                   *)
(*                                                                         *)
(* The sources are Python 2 (f.next(), filter()/map() returning lists,     *)
(* len(traj)/natoms used as an integer): the model follows Python 2.       *)
(*                                                                         *)
(* A log is a sequence of lines; a line is the sequence of its             *)
(* whitespace-separated tokens (what line.strip().split() gives).  A token *)
(* is a word, a decimal integer literal, or a decimal literal with one     *)
(* fractional digit.  Indices are 1-based here and 0-based in the source.  *)
(***************************************************************************)
EXTENDS Integers, Sequences, FiniteSets, TLC

VARIABLES
    log,        \* GaussianOut: the lines of the file self.filename names
    query,      \* the GaussianOut method last called ("none" before any)
    result,     \* what that call did: returned a value, returned None, raised
    pc,         \* optimize_accounts: position of the script
    update,     \* args.update
    sprio,      \* scheduler: account -> the words sprio prints for its test job
    pending,    \* scheduler: the user's own pending jobs
    todo,       \* get_best_account: accounts of prio.keys() still to visit
    cur,        \* get_best_account: the loop variable account
    prio,       \* get_best_account: the dict prio
    test_ids,   \* the global test_ids
    test_files, \* the global test_files
    queue,      \* scheduler: test jobs submitted and not cancelled
    disk,       \* file system: the test_<account> files present
    best,       \* the account get_best_account returned first
    updated     \* scheduler: jobs scontrol update was called on

vars == <<log, query, result, pc, update, sprio, pending, todo, cur, prio,
          test_ids, test_files, queue, disk, best, updated>>

gaussVars == <<log, query, result>>

acctVars == <<pc, update, sprio, pending, todo, cur, prio, test_ids,
              test_files, queue, disk, best, updated>>

----------------------------------------------------------------------------
(* Tokens *)

W(s) == [k |-> "w", s |-> s, n |-> 0]      \* a word
I(n) == [k |-> "i", s |-> "", n |-> n]     \* an integer literal, value n
D(t) == [k |-> "d", s |-> "", n |-> t]     \* a literal d.d, value t tenths

(* Outcomes of a call *)
Return(v) == [kind |-> "return", exc |-> "", val |-> v]
ReturnNone == [kind |-> "none", exc |-> "", val |-> <<>>]
Raise(e) == [kind |-> "raise", exc |-> e, val |-> <<>>]

\* int(token): a Python int from a string, ValueError otherwise
PyInt(tok) == IF tok.k = "i" THEN Return(tok.n) ELSE Raise("ValueError")

\* float(token), in tenths: ValueError for a word
PyFloat(tok) ==
    IF tok.k = "i" THEN Return(10 * tok.n)
    ELSE IF tok.k = "d" THEN Return(tok.n)
    ELSE Raise("ValueError")

\* seq[i] for a 0-based index i >= 0 of a Python list: IndexError past the end
PyIndex(seq, i) ==
    IF i + 1 <= Len(seq) THEN Return(seq[i + 1]) ELSE Raise("IndexError")

\* line.strip().startswith(prefix), the prefix given as its tokens
StartsWith(line, prefix) ==
    /\ Len(line) >= Len(prefix)
    /\ \A i \in 1..Len(prefix) : line[i] = W(prefix[i])

\* filter(lambda x: x.strip().startswith(prefix), self.content())
RECURSIVE Filter(_, _)
Filter(lines, prefix) ==
    IF lines = <<>> THEN <<>>
    ELSE IF StartsWith(Head(lines), prefix)
         THEN <<Head(lines)>> \o Filter(Tail(lines), prefix)
         ELSE Filter(Tail(lines), prefix)

----------------------------------------------------------------------------
(* GaussianOut *)

\* self.content(): a generator over the lines of the file
content(file) == file

\* normaltermination: self.content()[-1] subscripts the generator object,
\* which Python refuses before any line is read
normaltermination(file) ==
    LET gen == content(file)
    IN  Raise("TypeError")

\* float(x.split()[4])
EnergyOf(line) ==
    LET t == PyIndex(line, 4)
    IN  IF t.kind = "raise" THEN t ELSE PyFloat(t.val)

\* map(lambda x: float(x.split()[4]), energies): the first raise ends it
RECURSIVE Energies(_, _)
Energies(lines, acc) ==
    IF lines = <<>> THEN Return(acc)
    ELSE LET r == EnergyOf(Head(lines))
         IN  IF r.kind = "raise" THEN r
             ELSE Energies(Tail(lines), Append(acc, r.val))

scf_energy(file) == Energies(Filter(content(file), <<"SCF", "Done:">>), <<>>)

\* int(x.strip().split()[7])
CyclesOf(line) ==
    LET t == PyIndex(line, 7)
    IN  IF t.kind = "raise" THEN t ELSE PyInt(t.val)

\* map(int, map(lambda x: x.strip().split()[7], cycles))
RECURSIVE Cycles(_, _)
Cycles(lines, acc) ==
    IF lines = <<>> THEN Return(acc)
    ELSE LET r == CyclesOf(Head(lines))
         IN  IF r.kind = "raise" THEN r
             ELSE Cycles(Tail(lines), Append(acc, r.val))

no_scfcycles(file) == Cycles(Filter(content(file), <<"SCF", "Done:">>), <<>>)

\* float(w[i]) for one field of the line
FieldOf(w, i) ==
    LET t == PyIndex(w, i)
    IN  IF t.kind = "raise" THEN t ELSE PyFloat(t.val)

\* a variant of WalltimeOf that reads every field one token later
WalltimeOfShifted(w) ==
    LET d == FieldOf(w, 3)
        h == FieldOf(w, 5)
        m == FieldOf(w, 7)
        s == FieldOf(w, 9)
    IN  IF d.kind = "raise" THEN d
        ELSE IF h.kind = "raise" THEN h
        ELSE IF m.kind = "raise" THEN m
        ELSE IF s.kind = "raise" THEN s
        ELSE Return(d.val * 24 * 60 * 60 + h.val * 60 * 60 + m.val * 60 + s.val)

\* float(w[2])*24*60*60 + float(w[4])*60*60 + float(w[6])*60 + float(w[8])
WalltimeOf(w) ==
    LET d == FieldOf(w, 2)
        h == FieldOf(w, 4)
        m == FieldOf(w, 6)
        s == FieldOf(w, 8)
    IN  IF d.kind = "raise" THEN d
        ELSE IF h.kind = "raise" THEN h
        ELSE IF m.kind = "raise" THEN m
        ELSE IF s.kind = "raise" THEN s
        ELSE Return(d.val * 24 * 60 * 60 + h.val * 60 * 60 + m.val * 60 + s.val)

\* filter(...)[0]: IndexError when no line matches
walltime(file) ==
    LET w == PyIndex(Filter(content(file), <<"Elapsed", "time:">>), 0)
    IN  IF w.kind = "raise" THEN w ELSE WalltimeOf(w.val)

\* the first matching line decides; falling off the loop returns None
RECURSIVE FirstCount(_, _)
FirstCount(lines, prefix) ==
    IF lines = <<>> THEN ReturnNone
    ELSE IF StartsWith(Head(lines), prefix)
         THEN LET t == PyIndex(Head(lines), 1)
              IN  IF t.kind = "raise" THEN t ELSE PyInt(t.val)
         ELSE FirstCount(Tail(lines), prefix)

no_atoms(file) == FirstCount(content(file), <<"NAtoms=">>)

no_basisfunctions(file) == FirstCount(content(file), <<"NBasis=">>)

\* the list elements: 'Dummy' at Python index 0, then the 118 symbols
elements ==
    <<"Dummy", "H", "He", "Li", "Be", "B", "C", "N", "O", "F", "Ne", "Na",
      "Mg", "Al", "Si", "P", "S", "Cl", "Ar", "K", "Ca", "Sc", "Ti", "V",
      "Cr", "Mn", "Fe", "Co", "Ni", "Cu", "Zn", "Ga", "Ge", "As", "Se",
      "Br", "Kr", "Rb", "Sr", "Y", "Zr", "Nb", "Mo", "Tc", "Ru", "Rh",
      "Pd", "Ag", "Cd", "In", "Sn", "Sb", "Te", "I", "Xe", "Cs", "Ba",
      "La", "Ce", "Pr", "Nd", "Pm", "Sm", "Eu", "Gd", "Tb", "Dy", "Ho",
      "Er", "Tm", "Yb", "Lu", "Hf", "Ta", "W", "Re", "Os", "Ir", "Pt",
      "Au", "Hg", "Tl", "Pb", "Bi", "Po", "At", "Rn", "Fr", "Ra", "Ac",
      "Th", "Pa", "U", "Np", "Pu", "Am", "Cm", "Bk", "Cf", "Es", "Fm",
      "Md", "No", "Lr", "Rf", "Db", "Sg", "Bh", "Hs", "Mt", "Ds", "Rg",
      "Cn", "Nh", "Fl", "Mc", "Lv", "Ts", "Og">>

\* elements[z] as Python indexes a list: a negative z counts from the end
ElementAt(z) ==
    IF z >= 0 /\ z < Len(elements) THEN Return(elements[z + 1])
    ELSE IF z < 0 /\ z >= -Len(elements) THEN Return(elements[Len(elements) + z + 1])
    ELSE Raise("IndexError")

\* content[i+j+5]: the first geometry row is 5 lines below the anchor
BlockOffset == 5

\* a variant of ReadBlock that starts one line too low
ReadBlockSkipFirst(lines, p, natoms) ==
    IF natoms <= 0 THEN Return(<<>>)
    ELSE IF p + natoms + BlockOffset > Len(lines) THEN Raise("IndexError")
    ELSE Return(SubSeq(lines, p + BlockOffset + 1, p + natoms + BlockOffset))

\* the inner loop at one anchor (1-based index p): natoms appends, the first
\* index past the end raises
ReadBlock(lines, p, natoms) ==
    IF natoms <= 0 THEN Return(<<>>)
    ELSE IF p + (natoms - 1) + BlockOffset > Len(lines) THEN Raise("IndexError")
    ELSE Return(SubSeq(lines, p + BlockOffset, p + (natoms - 1) + BlockOffset))

\* the outer loop over enumerate(self.content()), from line p on; natoms is
\* what no_atoms returned (range(None) raises TypeError)
RECURSIVE Collect(_, _, _, _)
Collect(lines, natoms, p, acc) ==
    IF p > Len(lines) THEN Return(acc)
    ELSE IF ~StartsWith(lines[p], <<"Input", "orientation:">>)
         THEN Collect(lines, natoms, p + 1, acc)
    ELSE IF natoms.kind = "none" THEN Raise("TypeError")
    ELSE LET b == ReadBlock(lines, p, natoms.val)
         IN  IF b.kind = "raise" THEN b
             ELSE Collect(lines, natoms, p + 1, acc \o b.val)

\* len(traj)/natoms, Python 2: the floor of the quotient of two ints
PyIntDiv(a, b) ==
    IF b = 0 THEN Raise("ZeroDivisionError")
    ELSE IF b > 0 THEN Return(a \div b)
    ELSE Return((-a) \div (-b))

\* [traj[natoms*i:natoms*(i+1)] for i in range(ngeoms)]
Chunks(flat, natoms, ngeoms) ==
    [g \in 1..ngeoms |-> SubSeq(flat, natoms * (g - 1) + 1, natoms * g)]

\* one atom: split(), del atom[0], del atom[1], atom[0] = elements[int(atom[0])]
ProjectAtom(line) ==
    IF Len(line) < 1 THEN Raise("IndexError")
    ELSE LET a1 == Tail(line)
         IN  IF Len(a1) < 2 THEN Raise("IndexError")
             ELSE LET a2 == <<a1[1]>> \o SubSeq(a1, 3, Len(a1))
                      z == PyInt(a2[1])
                  IN  IF z.kind = "raise" THEN z
                      ELSE LET e == ElementAt(z.val)
                           IN  IF e.kind = "raise" THEN e
                               ELSE Return(<<W(e.val)>> \o Tail(a2))

\* for atom in geom: ...
RECURSIVE ProjectGeom(_, _)
ProjectGeom(geom, acc) ==
    IF geom = <<>> THEN Return(acc)
    ELSE LET r == ProjectAtom(Head(geom))
         IN  IF r.kind = "raise" THEN r
             ELSE ProjectGeom(Tail(geom), Append(acc, r.val))

\* for geom in traj: ...
RECURSIVE ProjectTraj(_, _)
ProjectTraj(geoms, acc) ==
    IF geoms = <<>> THEN Return(acc)
    ELSE LET r == ProjectGeom(Head(geoms), <<>>)
         IN  IF r.kind = "raise" THEN r
             ELSE ProjectTraj(Tail(geoms), Append(acc, r.val))

\* a variant of DropLast that keeps the last geometry
DropLastNever(traj) == traj

\* traj[:-1]

DropLast(traj) == SubSeq(traj, 1, Len(traj) - 1)

\* the body of geometry_trajectory after natoms = self.no_atoms()
TrajectoryWith(file, natoms) ==
    IF natoms.kind = "raise" THEN natoms
    ELSE LET flat == Collect(content(file), natoms, 1, <<>>)
         IN  IF flat.kind = "raise" THEN flat
             ELSE IF natoms.kind = "none" THEN Raise("TypeError")
             ELSE LET ngeoms == PyIntDiv(Len(flat.val), natoms.val)
                  IN  IF ngeoms.kind = "raise" THEN ngeoms
                      ELSE LET traj == ProjectTraj(
                                           Chunks(flat.val, natoms.val, ngeoms.val),
                                           <<>>)
                           IN  IF traj.kind = "raise" THEN traj
                               ELSE Return(DropLast(traj.val))

\* a variant of geometry_trajectory that gives an empty trajectory when the
\* atom count is None
geometry_trajectoryLenient(file) ==
    IF no_atoms(file).kind = "none" THEN Return(<<>>)
    ELSE TrajectoryWith(file, no_atoms(file))

\* natoms = self.no_atoms(), then the body
geometry_trajectory(file) == TrajectoryWith(file, no_atoms(file))

\* len(list(self.geometry_trajectory()))
no_geomcycles(file) ==
    LET t == geometry_trajectory(file)
    IN  IF t.kind = "raise" THEN t ELSE Return(Len(t.val))

----------------------------------------------------------------------------
(* The logs the queries are run on *)

Dash == <<W("-----")>>

Blank == <<>>

\* "Input orientation:" and the four lines Gaussian prints below it
OrientationHeader ==
    << <<W("Input"), W("orientation:")>>,
       Dash,
       <<W("Center"), W("Atomic"), W("Atomic"), W("Coordinates"), W("(Angstroms)")>>,
       <<W("Number"), W("Number"), W("Type"), W("X"), W("Y"), W("Z")>>,
       Dash >>

\* a geometry row: center number, atomic number, atomic type, x, y, z
Row(c, z) == <<I(c), I(z), I(0), D(c), D(0), D(-c)>>

\* " NAtoms=    n NActive=    n ..."
NAtomsLine(n) == <<W("NAtoms="), I(n), W("NActive="), I(n)>>

\* " NBasis=    n NAE= ..."
NBasisLine(n) == <<W("NBasis="), I(n), W("NAE="), I(1)>>

\* " SCF Done:  E(RHF) =  e  A.U. after  c cycles"
ScfLine(e, c) ==
    <<W("SCF"), W("Done:"), W("E(RHF)"), W("="), e, W("A.U."), W("after"), c,
      W("cycles")>>

\* " Elapsed time:  d days  h hours  m minutes  s seconds."
ElapsedLine(d, h, m, s) ==
    <<W("Elapsed"), W("time:"), d, W("days"), h, W("hours"), m, W("minutes"), s,
      W("seconds.")>>

NormalLine == <<W("Normal"), W("termination"), W("of"), W("Gaussian")>>

MaxBlocks == 3

AtomCounts == {1, 2}

MaxOf(S) == CHOOSE x \in S : \A y \in S : y <= x

\* what follows an orientation header: up to the largest atom count of
\* lines, each the row of an H (1) or an O (8) atom, or the line of dashes (0)
\* that closes the table, after which nothing of the block follows
RowChoices == {1, 8, 0}

BlockBodies ==
    {body \in UNION {[1..n -> RowChoices] : n \in 0..MaxOf(AtomCounts)} :
        \A i \in 1..Len(body) : body[i] = 0 => i = Len(body)}

BlockLines(body) ==
    [i \in 1..Len(body) |-> IF body[i] = 0 THEN Dash ELSE Row(i, body[i])]

RECURSIVE Flatten(_)
Flatten(ss) == IF ss = <<>> THEN <<>> ELSE Head(ss) \o Flatten(Tail(ss))

\* an optimization log: orientation blocks, and after the first of them the
\* NAtoms= line when the log has one (n = 0: it has none)
TrajLog(n, bodies) ==
    LET blocks == [b \in 1..Len(bodies) |-> OrientationHeader \o BlockLines(bodies[b])]
        nline == IF n = 0 THEN <<>> ELSE <<NAtomsLine(n)>>
    IN  IF blocks = <<>> THEN nline
        ELSE Head(blocks) \o nline \o Flatten(Tail(blocks))

TrajLogs ==
    {TrajLog(n, bodies) :
        n \in AtomCounts \cup {0},
        bodies \in UNION {[1..k -> BlockBodies] : k \in 0..MaxBlocks}}

\* atomic numbers at and beyond the ends of the element table
EdgeNumbers == {-1, 0, 1, 2, 118, 119}

\* optimization logs of a one-atom system: up to MaxBlocks orientation
\* blocks of one row each, the atomic number drawn from EdgeNumbers
ElementLogs ==
    LET bodies == {<<Row(1, z)>> : z \in EdgeNumbers}
        blockSeqs == UNION {[1..k -> bodies] : k \in 0..MaxBlocks}
    IN  {LET blocks == [b \in 1..Len(bs) |-> OrientationHeader \o bs[b]]
         IN  IF blocks = <<>> THEN <<NAtomsLine(1)>>
             ELSE Head(blocks) \o <<NAtomsLine(1)>> \o Flatten(Tail(blocks)) :
         bs \in blockSeqs}

MaxSummaryLines == 2

\* an "Elapsed time:" line whose ten tokens are all numbers but the prefix
ElapsedNumbers ==
    <<W("Elapsed"), W("time:"), I(1), I(2), I(3), I(4), I(5), I(6), I(7), I(8)>>

\* an "Elapsed time:" line cut after its first field
ElapsedCut == <<W("Elapsed"), W("time:"), I(0), W("days")>>

\* the lines of the summary logs
SummaryLines ==
    {ElapsedLine(d, h, m, s) :
        d \in {I(0), I(1)}, h \in {I(0), I(1)}, m \in {I(0), I(2)},
        s \in {I(3), D(35)}}
    \cup {ElapsedNumbers, ElapsedCut, NormalLine, Blank, Row(1, 1),
          NAtomsLine(2), NBasisLine(7),
          ScfLine(D(-10), I(5)), ScfLine(D(-11), I(9))}

SummaryLogs == UNION {[1..n -> SummaryLines] : n \in 0..MaxSummaryLines}

----------------------------------------------------------------------------
(* States and actions: a state records one call of a query on the log and *)
(* its outcome; every call is a fresh scan of the file                    *)

AcctIdle ==
    /\ pc = "idle" /\ update = FALSE /\ sprio = <<>> /\ pending = {}
    /\ todo = {} /\ cur = "" /\ prio = <<>> /\ test_ids = <<>>
    /\ test_files = <<>> /\ queue = {} /\ disk = {} /\ best = ""
    /\ updated = {}

GeometryTrajectory ==
    /\ query = "none"
    /\ query' = "geometry_trajectory"
    /\ result' = geometry_trajectory(log)
    /\ UNCHANGED <<log, acctVars>>

NoGeomcycles ==
    /\ query = "none"
    /\ query' = "no_geomcycles"
    /\ result' = no_geomcycles(log)
    /\ UNCHANGED <<log, acctVars>>

NoAtoms ==
    /\ query = "none"
    /\ query' = "no_atoms"
    /\ result' = no_atoms(log)
    /\ UNCHANGED <<log, acctVars>>

InitTraj ==
    /\ log \in TrajLogs
    /\ query = "none"
    /\ result = ReturnNone
    /\ AcctIdle

NextTraj == GeometryTrajectory \/ NoGeomcycles \/ NoAtoms

SpecTraj == InitTraj /\ [][NextTraj]_vars

InitElements ==
    /\ log \in ElementLogs
    /\ query = "none"
    /\ result = ReturnNone
    /\ AcctIdle

SpecElements == InitElements /\ [][NextTraj]_vars

Normaltermination ==
    /\ query = "none"
    /\ query' = "normaltermination"
    /\ result' = normaltermination(log)
    /\ UNCHANGED <<log, acctVars>>

ScfEnergy ==
    /\ query = "none"
    /\ query' = "scf_energy"
    /\ result' = scf_energy(log)
    /\ UNCHANGED <<log, acctVars>>

NoScfcycles ==
    /\ query = "none"
    /\ query' = "no_scfcycles"
    /\ result' = no_scfcycles(log)
    /\ UNCHANGED <<log, acctVars>>

Walltime ==
    /\ query = "none"
    /\ query' = "walltime"
    /\ result' = walltime(log)
    /\ UNCHANGED <<log, acctVars>>

NoBasisfunctions ==
    /\ query = "none"
    /\ query' = "no_basisfunctions"
    /\ result' = no_basisfunctions(log)
    /\ UNCHANGED <<log, acctVars>>

InitSummary ==
    /\ log \in SummaryLogs
    /\ query = "none"
    /\ result = ReturnNone
    /\ AcctIdle

NextSummary ==
    \/ Normaltermination
    \/ ScfEnergy
    \/ NoScfcycles
    \/ Walltime
    \/ NoAtoms
    \/ NoBasisfunctions

SpecSummary == InitSummary /\ [][NextSummary]_vars

----------------------------------------------------------------------------
(* optimize_accounts.py *)

\* the accounts "cost -u user" may list for the user
AccountNames == {"nn1", "nn2", "nn3"}

\* the priorities the scheduler may report for a test job
Priorities == {0, 5, 9, 10, 11}

\* the user's jobs squeue may list as pending
UserJobs == {"4711"}

\* a non-negative integer as the scheduler prints it: its decimal digits
RECURSIVE Digits(_)
Digits(n) == IF n < 10 THEN <<n>> ELSE Digits(n \div 10) \o <<n % 10>>

\* what "sprio -h --jobs id" prints, split into words: the job id and its
\* priority, or nothing when the scheduler has no pending job of that id
SprioOutputs == {<<>>} \cup {<<Digits(4712), Digits(p)>> : p \in Priorities}

\* get_priority: output.split()[1], a string
get_priority(account) == PyIndex(sprio[account], 1)

\* the values of the dict prio: the int 0 it is initialised with, or the
\* string get_priority returned
IntValue(n) == [t |-> "int", d |-> <<n>>]
StrValue(d) == [t |-> "str", d |-> d]

\* Python 2's < on two strings of digits: character by character
RECURSIVE StrLess(_, _)
StrLess(x, y) ==
    IF y = <<>> THEN FALSE
    ELSE IF x = <<>> THEN TRUE
    ELSE IF Head(x) # Head(y) THEN Head(x) < Head(y)
    ELSE StrLess(Tail(x), Tail(y))

\* the number a string of digits denotes
RECURSIVE NumOf(_)
NumOf(d) == IF d = <<>> THEN 0 ELSE 10 * NumOf(SubSeq(d, 1, Len(d) - 1)) + d[Len(d)]

\* Python 2's < on the values of prio: any int is below any str
ValueLess(x, y) ==
    IF x.t # y.t THEN x.t = "int"
    ELSE IF x.t = "int" THEN x.d[1] < y.d[1]
    ELSE StrLess(x.d, y.d)

\* max(prio, key=prio.get): the keys no other key's value exceeds (which of
\* them max returns is the dict's iteration order)
MaxKeys(p) == {a \in DOMAIN p : \A b \in DOMAIN p : ~ValueLess(p[a], p[b])}

InitAccounts ==
    /\ log = <<>> /\ query = "none" /\ result = ReturnNone
    /\ pc = "start"
    /\ update \in BOOLEAN
    /\ sprio \in UNION {[A -> SprioOutputs] : A \in SUBSET AccountNames}
    /\ pending \in SUBSET UserJobs
    /\ todo = {} /\ cur = "" /\ prio = <<>> /\ test_ids = <<>>
    /\ test_files = <<>> /\ queue = {} /\ disk = {} /\ best = ""
    /\ updated = {}

\* get_best_account, up to the loop: prio = {account: 0 ...}, the globals reset
EnterBestAccount ==
    /\ pc = "start"
    /\ prio' = [a \in DOMAIN sprio |-> IntValue(0)]
    /\ test_ids' = <<>>
    /\ test_files' = <<>>
    /\ todo' = DOMAIN sprio
    /\ pc' = "loop"
    /\ UNCHANGED <<gaussVars, update, sprio, pending, cur, queue, disk, best, updated>>

\* one turn of the loop up to sbatch: the file name is recorded, the file
\* written, the test job submitted
Submit ==
    /\ pc = "loop"
    /\ \E account \in todo :
        /\ cur' = account
        /\ todo' = todo \ {account}
        /\ test_files' = Append(test_files, account)
        /\ disk' = disk \cup {account}
        /\ queue' = queue \cup {account}
    /\ pc' = "submitted"
    /\ UNCHANGED <<gaussVars, update, sprio, pending, prio, test_ids, best, updated>>

\* the rest of the turn: prio[account] = get_priority(test_jobid), then
\* test_ids.append(test_jobid); an IndexError in get_priority ends the script
RecordPriority ==
    /\ pc = "submitted"
    /\ LET r == get_priority(cur)
       IN  IF r.kind = "raise"
           THEN /\ pc' = "aborted"
                /\ UNCHANGED <<prio, test_ids>>
           ELSE /\ prio' = [prio EXCEPT ![cur] = StrValue(r.val)]
                /\ test_ids' = Append(test_ids, cur)
                /\ pc' = "loop"
    /\ UNCHANGED <<gaussVars, update, sprio, pending, todo, cur, test_files,
                   queue, disk, best, updated>>

\* return max(prio, key=prio.get), prio; max of an empty dict raises ValueError
ReturnBest ==
    /\ pc = "loop"
    /\ todo = {}
    /\ IF DOMAIN prio = {}
       THEN pc' = "aborted" /\ best' = best
       ELSE /\ \E a \in MaxKeys(prio) : best' = a
            /\ pc' = IF update THEN "optimize" ELSE "print"
    /\ UNCHANGED <<gaussVars, update, sprio, pending, todo, cur, prio, test_ids,
                   test_files, queue, disk, updated>>

\* optimize: scontrol update on every pending job squeue lists (the user's
\* own and the test jobs), sub.call ignoring how scontrol ends
Optimize ==
    /\ pc = "optimize"
    /\ updated' = pending \cup queue
    /\ pc' = "cleanup"
    /\ UNCHANGED <<gaussVars, update, sprio, pending, todo, cur, prio, test_ids,
                   test_files, queue, disk, best>>

\* the else branch: the fairshare points are printed
PrintPoints ==
    /\ pc = "print"
    /\ pc' = "cleanup"
    /\ UNCHANGED <<gaussVars, update, sprio, pending, todo, cur, prio, test_ids,
                   test_files, queue, disk, best, updated>>

Range(s) == {s[i] : i \in 1..Len(s)}

\* for job in test_ids: kill(job)
KillTestJobs ==
    /\ pc = "cleanup"
    /\ queue' = queue \ Range(test_ids)
    /\ pc' = "remove"
    /\ UNCHANGED <<gaussVars, update, sprio, pending, todo, cur, prio, test_ids,
                   test_files, disk, best, updated>>

\* for f in test_files: os.remove(f)
RemoveTestFiles ==
    /\ pc = "remove"
    /\ disk' = disk \ Range(test_files)
    /\ pc' = "done"
    /\ UNCHANGED <<gaussVars, update, sprio, pending, todo, cur, prio, test_ids,
                   test_files, queue, best, updated>>

NextAccounts ==
    \/ EnterBestAccount
    \/ Submit
    \/ RecordPriority
    \/ ReturnBest
    \/ Optimize
    \/ PrintPoints
    \/ KillTestJobs
    \/ RemoveTestFiles

SpecAccounts == InitAccounts /\ [][NextAccounts]_vars

----------------------------------------------------------------------------
(* Properties of geometry_trajectory, no_geomcycles and no_atoms *)

IsAnchor(line) ==
    Len(line) >= 2 /\ line[1] = W("Input") /\ line[2] = W("orientation:")

\* the 1-based indices of the "Input orientation" lines of a log
Anchors(l) == {p \in 1..Len(l) : IsAnchor(l[p])}

\* the s-th anchor in file order
NthAnchor(l, s) ==
    CHOOSE p \in Anchors(l) : Cardinality({q \in Anchors(l) : q <= p}) = s

HasLine(l, word) == \E p \in 1..Len(l) : Len(l[p]) >= 1 /\ l[p][1] = W(word)

\* the log declares the atom count n
Declares(l, n) == no_atoms(l).kind = "return" /\ no_atoms(l).val = n

\* the atom count a log declares, when it declares one that is >= 1
DeclaredCount(l) ==
    IF no_atoms(l).kind = "return" /\ no_atoms(l).val >= 1
    THEN {no_atoms(l).val} ELSE {}

\* every anchor is followed by at least n+4 further lines
BlocksFit(l, n) == \A a \in Anchors(l) : a + n + 4 <= Len(l)

\* a line the block read accepts: three tokens or more, the second an integer
\* literal that indexes the element table
ReadableRow(line) ==
    Len(line) >= 3 /\ line[2].k = "i" /\ line[2].n \in -119..118

BlocksReadable(l, n) ==
    \A a \in Anchors(l) : \A i \in 0..(n - 1) : ReadableRow(l[a + 5 + i])

\* a geometry row as Gaussian prints it: center, atomic number, atomic type
\* and three coordinates
GeometryRow(line) ==
    /\ Len(line) = 6
    /\ \A c \in 1..3 : line[c].k = "i"
    /\ \A c \in 4..6 : line[c].k \in {"i", "d"}

\* the atom a row stands for: the symbol of its atomic number, then what
\* follows the atomic type
AtomOfRow(line) ==
    <<W(elements[(line[2].n % 119) + 1])>> \o SubSeq(line, 4, Len(line))

ExpectedSteps(k) == IF k >= 2 THEN k - 1 ELSE 0

\* C1 as stated: for a log that declares N >= 1 and whose k anchors are each
\* followed by at least N+4 further lines, geometry_trajectory returns
\* k-1 steps (none for k < 2), in anchor order, and no_geomcycles that number.
C1_Original ==
    \A n \in DeclaredCount(log) :
        (BlocksFit(log, n)) =>
            LET k == Cardinality(Anchors(log))
            IN  /\ query = "geometry_trajectory" =>
                    /\ result.kind = "return"
                    /\ Len(result.val) = ExpectedSteps(k)
                /\ query = "no_geomcycles" =>
                    /\ result.kind = "return"
                    /\ result.val = ExpectedSteps(k)

\* C1 (amended): the same, for the logs in which every line of every block
\* (lines a+5 .. a+4+N of anchor a) has at least three tokens, the second an
\* integer that indexes the element table: geometry_trajectory returns k-1
\* steps (none for k < 2), step s built from the lines of the s-th anchor,
\* the block of the last anchor dropped; no_geomcycles returns that number.
C1_StepCount ==
    \A n \in DeclaredCount(log) :
        (BlocksFit(log, n) /\ BlocksReadable(log, n)) =>
            LET k == Cardinality(Anchors(log))
            IN  /\ query = "geometry_trajectory" =>
                    /\ result.kind = "return"
                    /\ Len(result.val) = ExpectedSteps(k)
                    /\ \A s \in 1..ExpectedSteps(k) :
                          result.val[s] =
                              [i \in 1..n |-> AtomOfRow(log[NthAnchor(log, s) + 4 + i])]
                /\ query = "no_geomcycles" =>
                    /\ result.kind = "return"
                    /\ result.val = ExpectedSteps(k)

\* three anchors with readable blocks of two atoms, the two blocks kept differ
C1_Witness ==
    /\ query = "geometry_trajectory"
    /\ Declares(log, 2) /\ BlocksFit(log, 2) /\ BlocksReadable(log, 2)
    /\ Cardinality(Anchors(log)) = 3
    /\ result.kind = "return"
    /\ Len(result.val) = 2
    /\ result.val[1] # result.val[2]

\* C3: every step geometry_trajectory returns has exactly N entries, N what
\* no_atoms returns for the log, and entry i (0 <= i < N) of the step of the
\* anchor at line a is built from line a+5+i.
C3_StepShape ==
    (query = "geometry_trajectory" /\ result.kind = "return") =>
        \A s \in 1..Len(result.val) :
            /\ no_atoms(log).kind = "return"
            /\ Len(result.val[s]) = no_atoms(log).val
            /\ \A i \in 0..(Len(result.val[s]) - 1) :
                  LET p == NthAnchor(log, s) + 5 + i
                  IN  /\ p <= Len(log)
                      /\ ReadableRow(log[p])
                      /\ result.val[s][i + 1] = AtomOfRow(log[p])

C3_Witness ==
    /\ query = "geometry_trajectory"
    /\ result.kind = "return"
    /\ Len(result.val) = 2
    /\ Len(result.val[1]) = 2
    /\ result.val[1][1] # result.val[1][2]
    /\ Declares(log, 2)

\* C5: for a log with no line starting with "NAtoms=", geometry_trajectory
\* raises, whatever the number of anchors, and returns no trajectory.
C5_NoAtomCountFails ==
    (query = "geometry_trajectory" /\ ~HasLine(log, "NAtoms=")) =>
        result.kind = "raise"

C5_Witness ==
    /\ query = "geometry_trajectory"
    /\ ~HasLine(log, "NAtoms=")
    /\ Cardinality(Anchors(log)) >= 2
    /\ result.kind = "raise"

\* C6 as stated: when some anchor of a log that declares N is followed by
\* fewer than N geometry rows (the file ends or other text begins before line
\* a+5+N-1), geometry_trajectory raises.
C6_TruncatedBlockFails ==
    \A n \in DeclaredCount(log) :
        ( /\ query = "geometry_trajectory"
          /\ \E a \in Anchors(log) : \E i \in 0..(n - 1) :
                \/ a + 5 + i > Len(log)
                \/ ~GeometryRow(log[a + 5 + i]) )
        => result.kind = "raise"

\* C4 as stated: the atomic number of a geometry row is translated only
\* when it lies in 1..118 (1 gives "H", 2 "He", 118 "Og"); a row whose atomic
\* number is 0 or above 118 makes geometry_trajectory raise, and no returned
\* atom carries the placeholder at index 0 of the element table.
C4_OnlyTableSymbols ==
    query = "geometry_trajectory" =>
        /\ (\E a \in Anchors(log) :
               a + 5 <= Len(log) /\ GeometryRow(log[a + 5])
               /\ (log[a + 5][2].n = 0 \/ log[a + 5][2].n > 118))
           => result.kind = "raise"
        /\ result.kind = "return" =>
               \A s \in 1..Len(result.val) : \A i \in 1..Len(result.val[s]) :
                   LET z == log[NthAnchor(log, s) + 4 + i][2].n
                   IN  /\ result.val[s][i][1] # W(elements[1])
                       /\ z = 1 => result.val[s][i][1] = W("H")
                       /\ z = 2 => result.val[s][i][1] = W("He")
                       /\ z = 118 => result.val[s][i][1] = W("Og")

----------------------------------------------------------------------------
(* Properties of the summary queries *)

\* the lines of a log that start with the word(s) of an anchor
Matching(l, prefix) ==
    {p \in 1..Len(l) :
        Len(l[p]) >= Len(prefix) /\ \A i \in 1..Len(prefix) : l[p][i] = W(prefix[i])}

First(S) == CHOOSE p \in S : \A q \in S : p <= q

NonBlank(l) == {p \in 1..Len(l) : l[p] # <<>>}

\* C2 as stated: normaltermination returns True when the final non-blank
\* line starts with "Normal termination", False when it is anything else,
\* and a boolean in both cases.
C2_TerminationIsBoolean ==
    (query = "normaltermination" /\ NonBlank(log) # {}) =>
        LET last == CHOOSE p \in NonBlank(log) : \A q \in NonBlank(log) : q <= p
        IN  /\ result.kind = "return"
            /\ result.val = (last \in Matching(log, <<"Normal", "termination">>))

\* C7 as stated: a summary query whose anchor the log lacks does not raise:
\* scf_energy and no_scfcycles return an empty sequence, no_atoms,
\* no_basisfunctions and walltime return an undefined value.
C7_MissingAnchorNoRaise ==
    /\ (query \in {"scf_energy", "no_scfcycles"}
        /\ Matching(log, <<"SCF", "Done:">>) = {})
       => (result.kind = "return" /\ result.val = <<>>)
    /\ (query = "no_atoms" /\ Matching(log, <<"NAtoms=">>) = {})
       => result.kind = "none"
    /\ (query = "no_basisfunctions" /\ Matching(log, <<"NBasis=">>) = {})
       => result.kind = "none"
    /\ (query = "walltime" /\ Matching(log, <<"Elapsed", "time:">>) = {})
       => result.kind = "none"

\* the value of a numeric token, in tenths
Tenths(tok) == IF tok.k = "i" THEN 10 * tok.n ELSE tok.n

Numeric(line, positions) ==
    \A c \in positions : c + 1 <= Len(line) /\ line[c + 1].k \in {"i", "d"}

\* 86400*d + 3600*h + 60*m + s of the tokens at four 0-indexed positions
Seconds(line, pd, ph, pm, ps) ==
    86400 * Tenths(line[pd + 1]) + 3600 * Tenths(line[ph + 1])
        + 60 * Tenths(line[pm + 1]) + Tenths(line[ps + 1])

\* C8 as stated: walltime returns 86400*d + 3600*h + 60*m + s of the tokens at
\* 0-indexed positions 3, 5, 7 and 9 of the "Elapsed time:" line.
C8_Original ==
    (query = "walltime" /\ Matching(log, <<"Elapsed", "time:">>) # {}) =>
        LET line == log[First(Matching(log, <<"Elapsed", "time:">>))]
        IN  Numeric(line, {3, 5, 7, 9}) =>
                /\ result.kind = "return"
                /\ result.val = Seconds(line, 3, 5, 7, 9)

\* C8 (amended): walltime returns 86400*d + 3600*h + 60*m + s of the tokens at
\* 0-indexed positions 2, 4, 6 and 8 of the first "Elapsed time:" line.
C8_WalltimeFields ==
    (query = "walltime" /\ Matching(log, <<"Elapsed", "time:">>) # {}) =>
        LET line == log[First(Matching(log, <<"Elapsed", "time:">>))]
        IN  Numeric(line, {2, 4, 6, 8}) =>
                /\ result.kind = "return"
                /\ result.val = Seconds(line, 2, 4, 6, 8)

\* 0 days 1 hours 2 minutes 3.5 seconds: 3723.5 s
C8_Witness ==
    /\ query = "walltime"
    /\ Len(log) = 2
    /\ log[2] = ElapsedLine(I(0), I(1), I(2), D(35))
    /\ Matching(log, <<"Elapsed", "time:">>) = {2}
    /\ result.kind = "return"
    /\ result.val = 37235

----------------------------------------------------------------------------
(* Properties of optimize_accounts.py *)

\* the priority the scheduler reported for the test job of an account
Reported(a) == NumOf(sprio[a][2])

\* C9 as stated: the account get_best_account returns first has a reported
\* priority numerically >= that of every other account of the user.
C9_BestIsNumericMax ==
    pc \in {"optimize", "print", "cleanup", "remove", "done"} =>
        \A a \in DOMAIN sprio : Reported(best) >= Reported(a)

\* C10 as stated: when the script has ended, every test job it submitted has
\* been cancelled and every test_<account> file it wrote has been removed,
\* also when a scheduler command issued after a submission failed.
C10_CleanAtEnd ==
    pc \in {"done", "aborted"} => (queue = {} /\ disk = {})

============================================================================
